---- MODULE Spec2Model ----
(***************************************************************************)
(* A model of the cycloid driver (src/src/drive/driver.cc): the camera     *)
(* thread (OnCameraFrame), the control thread (OnControlFrame, the button  *)
(* handlers, StartRecording, StopRecording, ~Driver), the background       *)
(* writer that drains the recording queue, and the chunked record format.  *)
(*                                                                         *)
(* Numbers.  A float is modelled by a signed integer in thousandths        *)
(* (-3.03 is -3030); memcpy of a float copies the four bytes of that       *)
(* 32-bit word, little-endian, as memcpy copies an object representation.  *)
(* int8_t, uint16_t and uint32_t keep their width.                         *)
(***************************************************************************)
EXTENDS Integers, Sequences, FiniteSets, TLC

(* ------------------------------------------------------------------ *)
(* Bounds of the model                                                  *)
(* ------------------------------------------------------------------ *)
\* camera frames delivered to OnCameraFrame
MaxFrames == 3
\* calls of StartRecording (public calls and '+' presses together)
MaxStarts == 2
\* calls of OnControlFrame
MaxTicks == 1
\* largest frame-skip value a caller passes
MaxSkip == 1
\* longest raw buffer given to QueueRecordingData on its own
MaxLen == 3
\* control ticks in a row, with any input
MaxTickSeq == 2
\* camera frames, each followed by a control tick: one period of bit 2 of a
\* frame counter
MaxBlink == 8

(* ------------------------------------------------------------------ *)
(* Program constants                                                    *)
(* ------------------------------------------------------------------ *)
CEILHOME_X == -3030
CEILHOME_Y == 730
CEILHOME_THETA == 0
\* the descriptor fileno(stdout) returns
STDOUT_FD == 1
\* uint16_t framewidth = 640
framewidth == 640
\* the length AddEntry is given with a NULL buffer
SENTINEL_LEN == -1
\* output_fd_ when nothing is being recorded; also what a failed open returns
NO_FD == -1
NULL == 0

(* ------------------------------------------------------------------ *)
(* Bytes                                                                *)
(* ------------------------------------------------------------------ *)
\* a byte of a new[] buffer nothing was copied to yet
UNINIT == 999

\* memcpy(buf + off, src, Len(src))
Memcpy(buf, off, src) ==
  [i \in 1..Len(buf) |->
     IF i > off /\ i <= off + Len(src) THEN src[i - off] ELSE buf[i]]

\* new uint8_t[n]
NewBuf(n) == [i \in 1..n |-> UNINIT]

\* the object representation of a 32-bit integer (int, uint32_t, float word)
LE32(x) ==
  << x % 256, (x \div 256) % 256, (x \div 65536) % 256, (x \div 16777216) % 256 >>

\* the object representation of a uint16_t
LE16(x) == << x % 256, (x \div 256) % 256 >>

\* the object representation of an int8_t
LE8(x) == << x % 256 >>

\* readers of the documented layout
RdU32(b, off) ==
  b[off + 1] + 256 * b[off + 2] + 65536 * b[off + 3] + 16777216 * b[off + 4]

RdS32(b, off) ==
  b[off + 1] + 256 * b[off + 2] + 65536 * b[off + 3]
    + 16777216 * (IF b[off + 4] >= 128 THEN b[off + 4] - 256 ELSE b[off + 4])

RdU16(b, off) == b[off + 1] + 256 * b[off + 2]

RdS8(b, off) == IF b[off + 1] >= 128 THEN b[off + 1] - 256 ELSE b[off + 1]

Slice(b, off, n) == [i \in 1..n |-> b[off + i]]

\* "CYCF", "CSt1", "Y420"
TagCYCF == << 67, 89, 67, 70 >>
TagCSt1 == << 67, 83, 116, 49 >>
TagY420 == << 89, 52, 50, 48 >>

(* ------------------------------------------------------------------ *)
(* CarState                                                             *)
(* ------------------------------------------------------------------ *)
\* CarState::CarState()
CarStateInit ==
  [ accel |-> << 0, 0, 0 >>, gyro |-> << 0, 0, 0 >>,
    throttle |-> 0, steering |-> 0, wheel_dist |-> 0, wheel_v |-> 0,
    ceiltrack_pos |-> << CEILHOME_X, CEILHOME_Y, CEILHOME_THETA >> ]

\* CarState::SetHome()
SetHome(cs) ==
  [cs EXCEPT !.ceiltrack_pos = << CEILHOME_X, CEILHOME_Y, CEILHOME_THETA >>]

\* CarState::SerializedSize()
SerializedSize == 8 + 4 * 3 * 2 + 2 + 2 * 4

\* the memcpy calls of CarState::Serialize after "buf += 8", each as
\* (offset from the advanced buf, bytes copied)
SerializeFields(cs) ==
  << << 0, LE8(cs.throttle) >>,
     << 1, LE8(cs.steering) >>,
     << 2, LE32(cs.accel[1]) >>,
     << 2 + 4, LE32(cs.accel[2]) >>,
     << 2 + 8, LE32(cs.accel[3]) >>,
     << 14, LE32(cs.gyro[1]) >>,
     << 14 + 4, LE32(cs.gyro[2]) >>,
     << 14 + 8, LE32(cs.gyro[3]) >>,
     << 26, LE32(cs.wheel_dist) >>,
     << 30, LE32(cs.wheel_v) >> >>

RECURSIVE CopyAll(_, _, _, _)
CopyAll(buf, base, fields, n) ==
  IF n = 0 THEN buf
  ELSE Memcpy(CopyAll(buf, base, fields, n - 1),
              base + fields[n][1], fields[n][2])

\* CarState::Serialize(buf + at, bufsiz): the buffer afterwards.  The
\* assert(bufsiz >= len) aborts the program; a buffer too small is left
\* untouched here and the caller's chunk stays uninitialised there.
Serialize(cs, buf, at, bufsiz) ==
  LET len == SerializedSize
      b1 == Memcpy(buf, at, TagCSt1)
      b2 == Memcpy(b1, at + 4, LE32(len))
      fs == SerializeFields(cs)
  IN IF bufsiz >= len THEN CopyAll(b2, at + 8, fs, Len(fs)) ELSE buf

\* the value CarState::Serialize returns
SerializeReturn == SerializedSize

\* the documented layout of the CSt1 record, read back
ParseCarState(b, at) ==
  [ throttle |-> RdS8(b, at + 8),
    steering |-> RdS8(b, at + 9),
    accel |-> << RdS32(b, at + 10), RdS32(b, at + 14), RdS32(b, at + 18) >>,
    gyro |-> << RdS32(b, at + 22), RdS32(b, at + 26), RdS32(b, at + 30) >>,
    wheel_dist |-> RdS32(b, at + 34),
    wheel_v |-> RdS32(b, at + 38) ]

(* ------------------------------------------------------------------ *)
(* Collaborators whose code is outside driver.cc                        *)
(* ------------------------------------------------------------------ *)
\* "DCfg", "CtS1": the tags of the configuration and controller chunks
TagConfig == << 68, 67, 102, 103 >>
TagController == << 67, 116, 83, 49 >>

\* DriverConfig::SerializedSize(), DriverConfig::Serialize(): one chunk of
\* its own, tag and header-inclusive length first
ConfigSerializedSize == 8 + 2

ConfigSerialize ==
  Memcpy(Memcpy(Memcpy(NewBuf(ConfigSerializedSize), 0, TagConfig), 4,
                LE32(ConfigSerializedSize)), 8, << 0, 0 >>)

\* DriveController::SerializedSize(), DriveController::Serialize(): "each
\* of the following entries is expected to be a valid IFF chunk on its own"
ControllerSerializedSize == 8 + 1

ControllerSerialize(buf, at, bufsiz) ==
  Memcpy(Memcpy(Memcpy(buf, at, TagController), at + 4,
                LE32(ControllerSerializedSize)), at + 8, << 0 >>)

(* ------------------------------------------------------------------ *)
(* Recording frames                                                     *)
(* ------------------------------------------------------------------ *)
\* uint32_t yuvcklen = length + 8 + 2
YuvCkLen(length) == length + 8 + 2

\* uint32_t chunklen of Driver::QueueRecordingData
ChunkLen(length) ==
  8 + 8 + SerializedSize + ControllerSerializedSize + YuvCkLen(length)

\* ptr advanced by the first Serialize call only
PtrAfterCarState == 16 + SerializeReturn

\* int ptr after the two Serialize calls of Driver::QueueRecordingData
PtrAfterState == 16 + SerializeReturn + ControllerSerializedSize

\* the chunk Driver::QueueRecordingData builds for timestamp t, raw buffer
\* buf and the vehicle state cs
BuildChunk(t, buf, cs) ==
  LET length == Len(buf)
      chunklen == ChunkLen(length)
      yuvcklen == YuvCkLen(length)
      c0 == NewBuf(chunklen)
      c1 == Memcpy(c0, 0, TagCYCF)
      c2 == Memcpy(c1, 4, LE32(chunklen))
      c3 == Memcpy(c2, 8, LE32(t.tv_sec))
      c4 == Memcpy(c3, 12, LE32(t.tv_usec))
      c5 == Serialize(cs, c4, 16, chunklen - 16)
      p1 == 16 + SerializeReturn
      c6 == ControllerSerialize(c5, p1, chunklen - p1)
      ptr == PtrAfterState
      c7 == Memcpy(c6, ptr, TagY420)
      c8 == Memcpy(c7, ptr + 4, LE32(yuvcklen))
      c9 == Memcpy(c8, ptr + 8, LE16(framewidth))
  IN Memcpy(c9, ptr + 10, buf)

(* ------------------------------------------------------------------ *)
(* State                                                                *)
(* ------------------------------------------------------------------ *)
VARIABLES
  \* Driver's fields
  output_fd_, frame_, frameskip_, done_, gyro_bias_, gyro_last_, carstate_,
  \* the camera thread: where it is in OnCameraFrame, and its locals (the
  \* loaded frame_, the raw buffer, the timestamp)
  c_pc, c_reg, c_buf, c_t, ncalls,
  \* the control thread: where it is, the arguments of the StartRecording it
  \* runs, where that call returns to, what the last StartRecording returned
  k_pc, k_fname, k_skip, k_ret, k_result, nstarts, nticks,
  \* the background writer: its queue, the heap buffers it owns, the
  \* process's descriptor table, the contents of the files
  queue, heap, fdtab, files,
  \* the last status byte given to CarHW::SetControls
  car_leds,
  \* history: for each chunk the writer still holds, the destination that
  \* was being recorded when OnCameraFrame decided to emit it and the file
  \* its descriptor led to at the hand-off; the destination output_fd_ was
  \* opened for (as the camera thread saw it, and now); whether the driver
  \* is still alive
  born, c_dest, cur_dest, alive,
  \* history: whether no camera call began while the last StartRecording
  \* ran and the control thread did nothing since it returned true, and the
  \* number of camera calls made when it returned, and the calls that handed
  \* a frame to the writer since
  s_clean, s_base, s_calls,
  \* the locals of the last OnControlFrame: the IMU reading, the wheel
  \* interface's answer, the controller's answer and dt
  k_in,
  \* history: whether SetHome completed and no localization update started
  \* since; the blink-bit values forwarded to the actuator so far
  h_fresh, b_seen

drv == << output_fd_, frame_, frameskip_, done_, gyro_bias_, gyro_last_,
          carstate_, car_leds >>
cam == << c_pc, c_reg, c_buf, c_t, ncalls, c_dest >>
ctl == << k_pc, k_fname, k_skip, k_ret, k_result, nstarts, nticks >>
wrt == << queue, heap, fdtab, files >>
hist == << born, cur_dest, alive >>
sess == << s_clean, s_base, s_calls >>
aux == << k_in, h_fresh, b_seen >>
vars == << drv, cam, ctl, wrt, hist, sess, aux >>

\* descriptors the process can hold: stdout and the ones open() hands out
FDs == {STDOUT_FD} \cup (3..(2 + MaxStarts + 1))

\* the file stdout is attached to when the process starts
STDOUT_FILE == 1

\* fname arguments: "-" is stdout, "rec" a path that can be created (a new
\* destination each time), "bad" a path that cannot be opened
Fnames == {"-", "rec", "bad"}

\* the raw buffer the camera delivers with call n: n bytes that name it
RawBuffers(n) == {[i \in 1..n |-> n]}

\* the poses the localization collaborator leaves in ceiltrack_pos
TrackedPoses == { << CEILHOME_X + 100, CEILHOME_Y, CEILHOME_THETA >> }

(* ------------------------------------------------------------------ *)
(* The background writer (drive/flushthread.h)                          *)
(* ------------------------------------------------------------------ *)
\* FlushThread::AddEntry(fd, buf, len)
AddEntry(fd, buf, len) == Append(queue, [fd |-> fd, buf |-> buf, len |-> len])

\* whether a descriptor is open
IsOpen(fd) == fd \in FDs /\ fdtab[fd] # 0

\* write(fd, bytes, Len(bytes)): the files afterwards; a closed or invalid
\* descriptor writes nothing (EBADF)
Write(fd, bytes) ==
  IF IsOpen(fd) THEN [files EXCEPT ![fdtab[fd]] = Append(@, bytes)] ELSE files

\* open(fname, O_CREAT | O_TRUNC | O_WRONLY, 0666): the lowest free
\* descriptor, attached to a new empty file; -1 if the path cannot be opened
LowestFree == CHOOSE fd \in FDs : fdtab[fd] = 0 /\ \A g \in FDs : fdtab[g] = 0 => fd <= g

CanOpen(fname) == fname = "rec" /\ \E fd \in FDs : fdtab[fd] = 0

\* the history of a chunk that was freed
NoHistory == [dest |-> 0, file |-> 0]

\* the entry the background drain takes next, and the queue it leaves
NextEntry(q) == Head(q)
RestOfQueue(q) == Tail(q)

\* the background drain: takes the oldest entry; a NULL buffer is "flush and
\* close this destination", anything else is written and freed
Drain ==
  /\ queue # << >>
  /\ LET e == NextEntry(queue) IN
       /\ queue' = RestOfQueue(queue)
       /\ IF e.buf = NULL
            THEN /\ fdtab' = [fd \in FDs |-> IF fd = e.fd THEN 0 ELSE fdtab[fd]]
                 /\ UNCHANGED << heap, files, born >>
            ELSE /\ files' = Write(e.fd, Slice(heap[e.buf], 0, e.len))
                 /\ heap' = [heap EXCEPT ![e.buf] = << >>]
                 /\ born' = [born EXCEPT ![e.buf] = NoHistory]
                 /\ fdtab' = fdtab
  /\ UNCHANGED << drv, cam, ctl, cur_dest, alive, sess >>
  /\ UNCHANGED aux

(* ------------------------------------------------------------------ *)
(* The camera thread: Driver::OnCameraFrame                             *)
(* ------------------------------------------------------------------ *)
\* the call arrives, the n-th at most: gettimeofday, and frame_++ loads
\* frame_
CamCallUpTo(n) ==
  /\ alive /\ c_pc = "idle" /\ ncalls < n
  /\ \E b \in RawBuffers(ncalls + 1) : c_buf' = b
  /\ c_t' = [tv_sec |-> ncalls + 1, tv_usec |-> 0]
  /\ c_reg' = frame_
  /\ ncalls' = ncalls + 1
  /\ c_pc' = "c198"
  /\ UNCHANGED << drv, ctl, wrt, hist, c_dest >>
  /\ s_clean' = (s_clean /\ k_pc \notin {"s96", "s97", "s98", "s109"})
  /\ s_base' = IF s_clean' THEN s_base ELSE 0
  /\ s_calls' = IF s_clean' THEN s_calls ELSE {}
  /\ UNCHANGED aux

CamCall == CamCallUpTo(MaxFrames)

\* frame_++ stores; UpdateFromCamera: ceiltrack_->Update starts on
\* carstate_.ceiltrack_pos
CamIncr ==
  /\ c_pc = "c198"
  /\ frame_' = c_reg + 1
  /\ c_pc' = "c208"
  /\ UNCHANGED << output_fd_, frameskip_, done_, gyro_bias_, gyro_last_,
                  carstate_, car_leds, ctl, wrt, hist,
                  c_reg, c_buf, c_t, ncalls, c_dest, sess, k_in, b_seen >>
  /\ h_fresh' = FALSE

\* Driver::IsRecording()
IsRecording == output_fd_ # NO_FD

\* UpdateFromCamera: ceiltrack_->Update leaves its result in ceiltrack_pos;
\* then if (IsRecording() && ...): the left operand
CamUpdateEnd ==
  /\ c_pc = "c208"
  /\ \E p \in TrackedPoses :
       carstate_' = [carstate_ EXCEPT !.ceiltrack_pos = p]
  /\ IF IsRecording
       THEN c_pc' = "c210" /\ c_dest' = cur_dest
       ELSE c_pc' = "idle" /\ c_dest' = c_dest
  /\ UNCHANGED << output_fd_, frame_, frameskip_, done_, gyro_bias_,
                  gyro_last_, car_leds, ctl, wrt, hist,
                  c_reg, c_buf, c_t, ncalls, sess >>
  /\ UNCHANGED aux

\* the frame-skip test with the threshold itself passing
SkipPassedAtThreshold(frame, frameskip) == frame >= frameskip

\* the frame-skip test of OnCameraFrame
SkipPassed(frame, frameskip) == frame > frameskip

\* if (... && frame_ > frameskip_) { frame_ = 0;
CamCheckSkip ==
  /\ c_pc = "c210"
  /\ IF SkipPassed(frame_, frameskip_)
       THEN frame_' = 0 /\ c_pc' = "c212"
       ELSE frame_' = frame_ /\ c_pc' = "idle"
  /\ UNCHANGED << output_fd_, frameskip_, done_, gyro_bias_, gyro_last_,
                  carstate_, car_leds, ctl, wrt, hist,
                  c_reg, c_buf, c_t, ncalls, c_dest, sess >>
  /\ UNCHANGED aux

\* the destination QueueRecordingData names in its AddEntry
EntryFd == output_fd_

\* the length of the image chunk alone given as the entry's length
EntryLenYuvOnly(length) == YuvCkLen(length)

\* the length QueueRecordingData gives AddEntry: chunklen
EntryLen(length) == ChunkLen(length)

\* whether an entry handed over now for descriptor fd will find it open: it
\* is open and no close directive for it waits in the queue
WillBeOpen(fd) ==
  IsOpen(fd) /\ \A i \in 1..Len(queue) : ~(queue[i].fd = fd /\ queue[i].buf = NULL)

\* QueueRecordingData: the chunk is allocated and filled, and handed over by
\* flush_thread_->AddEntry(output_fd_, chunkbuf, chunklen); the return
CamQueue ==
  /\ c_pc = "c212"
  /\ heap' = Append(heap, BuildChunk(c_t, c_buf, carstate_))
  /\ queue' = AddEntry(EntryFd, Len(heap) + 1, EntryLen(Len(c_buf)))
  /\ born' = Append(born, [dest |-> c_dest,
                           file |-> IF WillBeOpen(EntryFd)
                                      THEN fdtab[EntryFd] ELSE 0])
  /\ c_pc' = "idle"
  /\ s_calls' = IF s_clean THEN s_calls \cup {ncalls} ELSE {}
  /\ UNCHANGED << drv, ctl, fdtab, files, cur_dest, alive,
                  c_reg, c_buf, c_t, ncalls, c_dest, s_clean, s_base >>
  /\ UNCHANGED aux

(* ------------------------------------------------------------------ *)
(* The control thread: StartRecording, StopRecording, ~Driver           *)
(* ------------------------------------------------------------------ *)
\* a public call of Driver::StartRecording(fname, frameskip)
CallStartRecording ==
  /\ alive /\ k_pc = "idle" /\ nstarts < MaxStarts
  /\ \E f \in Fnames, k \in 0..MaxSkip : k_fname' = f /\ k_skip' = k
  /\ k_ret' = "idle"
  /\ k_pc' = "s96"
  /\ nstarts' = nstarts + 1
  /\ UNCHANGED << drv, cam, wrt, hist, k_result, nticks >>
  /\ s_clean' = (c_pc = "idle")
  /\ s_base' = 0
  /\ s_calls' = {}
  /\ UNCHANGED aux

\* frameskip_ = frameskip
Start96 ==
  /\ k_pc = "s96"
  /\ frameskip_' = k_skip
  /\ k_pc' = "s97"
  /\ UNCHANGED << output_fd_, frame_, done_, gyro_bias_, gyro_last_,
                  carstate_, car_leds, cam, wrt, hist,
                  k_fname, k_skip, k_ret, k_result, nstarts, nticks, sess >>
  /\ UNCHANGED aux

\* frame_ = 0
Start97 ==
  /\ k_pc = "s97"
  /\ frame_' = 0
  /\ k_pc' = "s98"
  /\ UNCHANGED << output_fd_, frameskip_, done_, gyro_bias_, gyro_last_,
                  carstate_, car_leds, cam, wrt, hist,
                  k_fname, k_skip, k_ret, k_result, nstarts, nticks, sess >>
  /\ UNCHANGED aux

\* output_fd_ assigned only when the open succeeds
FailedFdKept(old) == old

\* what StartRecording leaves in output_fd_ when the open fails
FailedFd(old) == NO_FD

\* output_fd_ = fileno(stdout) or open(...); if (output_fd_ == -1) return false
StartOpen ==
  /\ k_pc = "s98"
  /\ \/ /\ k_fname = "-"
        /\ output_fd_' = STDOUT_FD
        /\ cur_dest' = fdtab[STDOUT_FD]
        /\ k_pc' = "s109"
        /\ UNCHANGED << fdtab, files, k_result, s_clean >>
     \/ /\ k_fname # "-" /\ CanOpen(k_fname)
        /\ output_fd_' = LowestFree
        /\ fdtab' = [fdtab EXCEPT ![LowestFree] = Len(files) + 1]
        /\ files' = Append(files, << >>)
        /\ cur_dest' = Len(files) + 1
        /\ k_pc' = "s109"
        /\ UNCHANGED << k_result, s_clean >>
     \/ /\ k_fname # "-" /\ ~CanOpen(k_fname)
        /\ output_fd_' = FailedFd(output_fd_)
        /\ cur_dest' = 0
        /\ k_result' = FALSE
        /\ k_pc' = k_ret
        /\ s_clean' = FALSE
        /\ UNCHANGED << fdtab, files >>
  /\ UNCHANGED << frame_, frameskip_, done_, gyro_bias_, gyro_last_,
                  carstate_, car_leds, cam, queue, heap, born, alive,
                  k_fname, k_skip, k_ret, nstarts, nticks, s_base, s_calls >>
  /\ UNCHANGED aux

\* write(output_fd_, hdrbuf, siz); return true
StartHeader ==
  /\ k_pc = "s109"
  /\ files' = Write(output_fd_, ConfigSerialize)
  /\ k_result' = TRUE
  /\ k_pc' = k_ret
  /\ UNCHANGED << drv, cam, queue, heap, fdtab, hist,
                  k_fname, k_skip, k_ret, nstarts, nticks >>
  /\ s_clean' = s_clean
  /\ s_base' = IF s_clean THEN ncalls ELSE 0
  /\ s_calls' = {}
  /\ UNCHANGED aux

\* a public call of Driver::StopRecording()
CallStopRecording ==
  /\ alive /\ k_pc = "idle"
  /\ k_ret' = "idle"
  /\ k_pc' = "p120"
  /\ UNCHANGED << drv, cam, wrt, hist,
                  k_fname, k_skip, k_result, nstarts, nticks >>
  /\ s_clean' = FALSE
  /\ s_base' = 0
  /\ s_calls' = {}
  /\ UNCHANGED aux

\* the entry StopRecording hands to the background writer
Sentinel(fd) == [fd |-> fd, buf |-> NULL, len |-> SENTINEL_LEN]

\* if (output_fd_ == -1) return; flush_thread_->AddEntry(output_fd_, NULL, -1)
StopAdd ==
  /\ k_pc = "p120"
  /\ \/ /\ ~IsRecording
        /\ k_pc' = k_ret
        /\ UNCHANGED queue
     \/ /\ IsRecording
        /\ queue' = AddEntry(Sentinel(output_fd_).fd, Sentinel(output_fd_).buf,
                             Sentinel(output_fd_).len)
        /\ k_pc' = "p124"
  /\ UNCHANGED << drv, cam, heap, fdtab, files, hist,
                  k_fname, k_skip, k_ret, k_result, nstarts, nticks, sess >>
  /\ UNCHANGED aux

\* output_fd_ left as it was
StoppedFdKept(old) == old

\* what StopRecording leaves in output_fd_
StoppedFd(old) == NO_FD

\* output_fd_ = -1, and the return
StopClear ==
  /\ k_pc = "p124"
  /\ output_fd_' = StoppedFd(output_fd_)
  /\ cur_dest' = 0
  /\ k_pc' = k_ret
  /\ UNCHANGED << frame_, frameskip_, done_, gyro_bias_, gyro_last_,
                  carstate_, car_leds, cam, wrt, born, alive,
                  k_fname, k_skip, k_ret, k_result, nstarts, nticks, sess >>
  /\ UNCHANGED aux

\* Driver::~Driver() { StopRecording(); }, once both threads have stopped
\* calling in
Destroy ==
  /\ alive /\ k_pc = "idle" /\ c_pc = "idle"
  /\ k_ret' = "dead"
  /\ k_pc' = "p120"
  /\ alive' = FALSE
  /\ UNCHANGED << drv, cam, wrt, born, cur_dest,
                  k_fname, k_skip, k_result, nstarts, nticks >>
  /\ s_clean' = FALSE
  /\ s_base' = 0
  /\ s_calls' = {}
  /\ UNCHANGED aux

\* Quit() { done_ = true; }
Quit ==
  /\ alive /\ ~done_
  /\ done_' = TRUE
  /\ UNCHANGED << output_fd_, frame_, frameskip_, gyro_bias_, gyro_last_,
                  carstate_, car_leds, cam, ctl, wrt, hist, sess >>
  /\ UNCHANGED aux

(* ------------------------------------------------------------------ *)
(* Arithmetic of the control tick                                       *)
(* ------------------------------------------------------------------ *)
Abs(x) == IF x < 0 THEN -x ELSE x

\* division that rounds toward zero, b > 0
TDiv(a, b) == IF a >= 0 THEN a \div b ELSE -((-a) \div b)

RECURSIVE Pow2(_)
Pow2(n) == IF n = 0 THEN 1 ELSE 2 * Pow2(n - 1)

\* x / d rounded to the nearest integer, ties to even (x >= 0, d > 0)
RoundNE(x, d) ==
  LET q == x \div d
      r == x % d
  IN IF 2 * r > d \/ (2 * r = d /\ q % 2 = 1) THEN q + 1 ELSE q

\* the binary32 nearest to n / d, 0 < n / d < 2^24, d < 256, as a 24-bit
\* significand m and a scale k: the value is m / 2^k
RECURSIVE NormShift(_, _, _)
NormShift(n, d, k) ==
  IF n * Pow2(k) >= d * 8388608 THEN k ELSE NormShift(n, d, k + 1)

\* the quotient rounded toward zero instead of to nearest
F32Down(n, d) ==
  LET k == NormShift(n, d, 0)
  IN [m |-> (n * Pow2(k)) \div d, k |-> k]

F32(n, d) ==
  LET k == NormShift(n, d, 0)
  IN [m |-> RoundNE(n * Pow2(k), d), k |-> k]

\* 127 * u in binary32, converted to an integer (toward zero)
RECURSIVE ExcessBits(_, _)
ExcessBits(q, s) ==
  IF q \div Pow2(s) < 16777216 THEN s ELSE ExcessBits(q, s + 1)

Mul127Trunc(u) ==
  LET q == 127 * u.m
      s == ExcessBits(q, 0)
      r == RoundNE(q, Pow2(s))
  IN IF s >= u.k THEN r * Pow2(s - u.k) ELSE r \div Pow2(u.k - s)

\* carstate_.throttle = 127*u_a for the float u_a nearest to n / d
ToInt8Scale(n, d) ==
  IF n = 0 THEN 0
  ELSE IF n > 0 THEN Mul127Trunc(F32(n, d))
  ELSE -Mul127Trunc(F32(-n, d))

\* a gain above one in place of the decay
Mul105(x) == TDiv(105 * x, 100)

\* 0.95 * x and 0.05 * x
Mul095(x) == TDiv(95 * x, 100)
Mul005(x) == TDiv(5 * x, 100)

\* gyro_last_ = 0.95 * gyro_last_ + 0.05 * gyro
FilterGyro(last, gyro) == [i \in 1..3 |-> Mul095(last[i]) + Mul005(gyro[i])]

\* the bias taken off the filtered reading
CorrectGyroFiltered(gyro, bias) ==
  [i \in 1..3 |-> FilterGyro(gyro_last_, gyro)[i] - bias[i]]

\* carstate_.gyro = gyro - gyro_bias_
CorrectGyro(gyro, bias) == [i \in 1..3 |-> gyro[i] - bias[i]]

\* if (fabsf(carstate_.gyro[2] > 0.1)): fabsf of the comparison's 0 or 1
YawGuard(gyro) == Abs(IF gyro[3] > 100 THEN 1 ELSE 0) # 0

\* the inertial guess of lines 238-241, dt in milliseconds
FallbackV(wheel_v, accel, gyro, dt) ==
  LET decayed == Mul095(wheel_v - TDiv(98 * accel[2] * dt, 10000))
  IN IF YawGuard(gyro)
       THEN decayed + Mul005(Abs(TDiv(accel[1] * 1000, gyro[3])))
       ELSE decayed

\* uint8_t leds = (frame_ & 4); leds |= IsRecording() ? 2 : 0
Leds(frame, recording) ==
  ((frame \div 4) % 2) * 4 + (IF recording THEN 2 ELSE 0)

\* what the collaborators hand to a control tick: the IMU reading, the wheel
\* interface's answer, the controller's answer (u_a, u_s as fractions n/d)
ImuReadings ==
  { [accel |-> << 100, 200, 1000 >>, gyro |-> << 10, -20, 500 >>] }

WheelMotions == { [ok |-> FALSE, v |-> 0] }

Controls == { [updated |-> TRUE, u_a |-> << 1, 2 >>, u_s |-> << -1, 1 >>] }

Dts == {10}

(* ------------------------------------------------------------------ *)
(* The control thread: Driver::OnControlFrame and the button handlers   *)
(* ------------------------------------------------------------------ *)
\* a call of OnControlFrame(car, dt), the n-th at most;
\* js_->ReadInput(this) comes first
CallTickUpTo(n) ==
  /\ alive /\ k_pc = "idle" /\ nticks < n
  /\ nticks' = nticks + 1
  /\ k_pc' = "t221"
  /\ UNCHANGED << drv, cam, wrt, hist,
                  k_fname, k_skip, k_ret, k_result, nstarts, sess >>
  /\ UNCHANGED aux

CallOnControlFrame == CallTickUpTo(MaxTicks)

\* OnButtonPress('+'): if (!IsRecording()) StartRecording(fnamebuf, 0)
PressPlus ==
  /\ k_pc = "t221" /\ nstarts < MaxStarts
  /\ ~IsRecording
  /\ \E f \in Fnames \ {"-"} : k_fname' = f
  /\ k_skip' = 0
  /\ k_ret' = "t221"
  /\ k_pc' = "s96"
  /\ nstarts' = nstarts + 1
  /\ UNCHANGED << drv, cam, wrt, hist, k_result, nticks >>
  /\ s_clean' = (c_pc = "idle")
  /\ s_base' = 0
  /\ s_calls' = {}
  /\ UNCHANGED aux

\* OnButtonPress('-'): if (IsRecording()) StopRecording()
PressMinus ==
  /\ k_pc = "t221"
  /\ IsRecording
  /\ k_ret' = "t221"
  /\ k_pc' = "p120"
  /\ UNCHANGED << drv, cam, wrt, hist,
                  k_fname, k_skip, k_result, nstarts, nticks >>
  /\ s_clean' = FALSE
  /\ s_base' = 0
  /\ s_calls' = {}
  /\ UNCHANGED aux

\* OnButtonPress('H'): carstate_.SetHome(); gyro_bias_ = gyro_last_
PressHome ==
  /\ k_pc = "t221"
  /\ carstate_' = SetHome(carstate_)
  /\ gyro_bias_' = gyro_last_
  /\ k_pc' = "t226"
  /\ h_fresh' = TRUE
  /\ UNCHANGED << output_fd_, frame_, frameskip_, done_, gyro_last_,
                  car_leds, cam, wrt, hist,
                  k_fname, k_skip, k_ret, k_result, nstarts, nticks, sess,
                  k_in, b_seen >>

\* the wheel-speed estimate of lines 233-242 stored without the encoders
WheelVFallbackOnly(w, wheel_v, accel, gyro, dt) ==
  FallbackV(wheel_v, accel, gyro, dt)

\* if (car->GetWheelMotion(&ds, &v)) carstate_.wheel_v = v; else the guess
WheelV(w, wheel_v, accel, gyro, dt) ==
  IF w.ok THEN w.v ELSE FallbackV(wheel_v, accel, gyro, dt)

\* a return value that never asks to stop
TickReturnTrue(done) == TRUE

\* return !done_
TickReturn(done) == ~done

\* the blink bit of a status byte
BlinkBit(leds) == ((leds \div 4) % 2) * 4

\* OnControlFrame from the ReadIMU to the return, with what the IMU, the
\* wheel interface and the controller hand it drawn from the given sets
Tick(imus, wheels, controls, dts) ==
  /\ k_pc \in {"t221", "t226"}
  /\ \E imu \in imus, w \in wheels, c \in controls, dt \in dts :
       LET gyro == CorrectGyro(imu.gyro, gyro_bias_)
           v == WheelV(w, carstate_.wheel_v, imu.accel, gyro, dt)
           u_a == IF c.updated THEN c.u_a ELSE << carstate_.throttle, 127 >>
           u_s == IF c.updated THEN c.u_s ELSE << carstate_.steering, 127 >>
       IN /\ gyro_last_' = FilterGyro(gyro_last_, imu.gyro)
          /\ carstate_' = [carstate_ EXCEPT
                             !.accel = imu.accel, !.gyro = gyro,
                             !.wheel_v = v,
                             !.throttle = ToInt8Scale(u_a[1], u_a[2]),
                             !.steering = ToInt8Scale(u_s[1], u_s[2])]
          /\ car_leds' = IF c.updated THEN Leds(frame_, IsRecording)
                         ELSE car_leds
          /\ b_seen' = IF c.updated
                         THEN b_seen \cup {BlinkBit(Leds(frame_, IsRecording))}
                         ELSE b_seen
          /\ k_in' = [imu |-> imu, w |-> w, c |-> c, dt |-> dt]
  /\ k_result' = TickReturn(done_)
  /\ k_pc' = "idle"
  /\ UNCHANGED << output_fd_, frame_, frameskip_, done_, gyro_bias_,
                  cam, wrt, hist, k_fname, k_skip, k_ret, nstarts, nticks,
                  sess, h_fresh >>

TickBody == Tick(ImuReadings, WheelMotions, Controls, Dts)

\* the locals of OnControlFrame before its first call
NoInput ==
  [ imu |-> [accel |-> << 0, 0, 0 >>, gyro |-> << 0, 0, 0 >>],
    w |-> [ok |-> FALSE, v |-> 0],
    c |-> [updated |-> FALSE, u_a |-> << 0, 1 >>, u_s |-> << 0, 1 >>],
    dt |-> 0 ]

(* ------------------------------------------------------------------ *)
(* The specification                                                    *)
(* ------------------------------------------------------------------ *)
Init ==
  /\ output_fd_ = NO_FD /\ frame_ = 0 /\ frameskip_ = 0 /\ done_ = FALSE
  /\ gyro_bias_ = << 0, 0, 0 >> /\ gyro_last_ = << 0, 0, 0 >>
  /\ carstate_ = CarStateInit
  /\ c_pc = "idle" /\ c_reg = 0 /\ c_buf = << >>
  /\ c_t = [tv_sec |-> 0, tv_usec |-> 0]
  /\ ncalls = 0 /\ c_dest = 0
  /\ k_pc = "idle" /\ k_fname = "-" /\ k_skip = 0 /\ k_ret = "idle"
  /\ k_result = FALSE /\ nstarts = 0 /\ nticks = 0
  /\ queue = << >> /\ heap = << >>
  /\ fdtab = [fd \in FDs |-> IF fd = STDOUT_FD THEN STDOUT_FILE ELSE 0]
  /\ files = << << >> >>
  /\ car_leds = 0
  /\ born = << >>
  /\ cur_dest = 0 /\ alive = TRUE
  /\ s_clean = FALSE /\ s_base = 0 /\ s_calls = {}
  /\ k_in = NoInput /\ h_fresh = FALSE /\ b_seen = {}

\* camera frames, public StartRecording and StopRecording calls, the
\* destructor, and the background drain
Next ==
  \/ CamCall \/ CamIncr \/ CamUpdateEnd \/ CamCheckSkip \/ CamQueue
  \/ CallStartRecording \/ Start96 \/ Start97 \/ StartOpen \/ StartHeader
  \/ CallStopRecording \/ StopAdd \/ StopClear
  \/ Destroy
  \/ Drain

Spec == Init /\ [][Next]_vars

\* camera frames, control ticks with the buttons they deliver, shutdown,
\* and the background drain
NextCtl ==
  \/ CamCall \/ CamIncr \/ CamUpdateEnd \/ CamCheckSkip \/ CamQueue
  \/ CallOnControlFrame \/ PressPlus \/ PressMinus \/ PressHome \/ TickBody
  \/ Start96 \/ Start97 \/ StartOpen \/ StartHeader
  \/ StopAdd \/ StopClear
  \/ Quit
  \/ Drain

SpecCtl == Init /\ [][NextCtl]_vars

(* ------------------------------------------------------------------ *)
(* QueueRecordingData and CarState::Serialize on their own              *)
(* ------------------------------------------------------------------ *)
\* raw buffers of every length up to MaxLen (none of them the byte pattern
\* of a header)
FrameBuffers == {[i \in 1..n |-> (37 * i + 200 + n) % 256] : n \in 0..MaxLen}

\* vehicle states the two threads can have left in carstate_: the int8_t
\* range ends and signs of throttle and steering, signed sensor readings,
\* the home pose and a tracked one; nothing writes wheel_dist
FrameStates ==
  { [ accel |-> a, gyro |-> g, throttle |-> th, steering |-> st,
      wheel_dist |-> 0, wheel_v |-> wv, ceiltrack_pos |-> p ] :
      a \in { << 0, 0, 9810 >>, << -1500, 20, 9000 >> },
      g \in { << 0, 0, 0 >>, << -5, 7, -12000 >> },
      th \in { -128, -1, 127 },
      st \in { -127, 0, 1 },
      wv \in { 0, 2500 },
      p \in { << CEILHOME_X, CEILHOME_Y, CEILHOME_THETA >>,
              << -2930, 730, -1571 >> } }

\* OnCameraFrame is about to call QueueRecordingData(t, buf, length): a
\* recording on descriptor 3 is active, its header written, the frame-skip
\* test passed and frame_ reset
InitFrame ==
  /\ output_fd_ = 3 /\ frame_ = 0 /\ frameskip_ = 0 /\ done_ = FALSE
  /\ gyro_bias_ = << 0, 0, 0 >> /\ gyro_last_ = << 0, 0, 0 >>
  /\ carstate_ \in FrameStates
  /\ c_pc = "c212" /\ c_reg = 0 /\ c_buf \in FrameBuffers
  /\ c_t = [tv_sec |-> 1, tv_usec |-> 500]
  /\ ncalls = 1 /\ c_dest = 2
  /\ k_pc = "idle" /\ k_fname = "rec" /\ k_skip = 0 /\ k_ret = "idle"
  /\ k_result = TRUE /\ nstarts = 1 /\ nticks = 0
  /\ queue = << >> /\ heap = << >>
  /\ fdtab = [fd \in FDs |-> IF fd = STDOUT_FD THEN STDOUT_FILE
                             ELSE IF fd = 3 THEN 2 ELSE 0]
  /\ files = << << >>, << ConfigSerialize >> >>
  /\ car_leds = 0
  /\ born = << >>
  /\ cur_dest = 2 /\ alive = TRUE
  /\ s_clean = TRUE /\ s_base = 0 /\ s_calls = {}
  /\ k_in = NoInput /\ h_fresh = FALSE /\ b_seen = {}

NextFrame == CamQueue \/ Drain

SpecFrame == InitFrame /\ [][NextFrame]_vars

(* ------------------------------------------------------------------ *)
(* Control ticks on their own, with any input                           *)
(* ------------------------------------------------------------------ *)
\* IMU readings: no acceleration or some, yaw rate zero, positive, negative
TickImus ==
  { [accel |-> a, gyro |-> g] :
      a \in { << 0, 0, 0 >>, << 300, 200, 9800 >> },
      g \in { << 0, 0, 0 >>, << 10, -20, 500 >>, << -40, 60, -500 >> } }

\* GetWheelMotion: no encoders, or a velocity
TickWheels == { [ok |-> FALSE, v |-> 0], [ok |-> TRUE, v |-> 1234] }

\* GetControl: an update (u_a = 1/2, u_s = -1), or no update
TickControls ==
  { [updated |-> TRUE, u_a |-> << 1, 2 >>, u_s |-> << -1, 1 >>],
    [updated |-> FALSE, u_a |-> << 0, 1 >>, u_s |-> << 0, 1 >>] }

\* dt in milliseconds
TickDts == { 0, 10 }

\* the driver between two control ticks, no recording: the estimate and the
\* filtered gyro earlier ticks left
InitTick ==
  /\ output_fd_ = NO_FD /\ frame_ = 0 /\ frameskip_ = 0 /\ done_ = FALSE
  /\ gyro_bias_ = << 0, 0, 0 >>
  /\ gyro_last_ \in { << 0, 0, 0 >>, << 20, 0, 200 >> }
  /\ \E v \in { -2000, 0, 1500 } :
       carstate_ = [CarStateInit EXCEPT !.wheel_v = v]
  /\ c_pc = "idle" /\ c_reg = 0 /\ c_buf = << >>
  /\ c_t = [tv_sec |-> 0, tv_usec |-> 0]
  /\ ncalls = 0 /\ c_dest = 0
  /\ k_pc = "idle" /\ k_fname = "-" /\ k_skip = 0 /\ k_ret = "idle"
  /\ k_result = FALSE /\ nstarts = 0 /\ nticks = 0
  /\ queue = << >> /\ heap = << >>
  /\ fdtab = [fd \in FDs |-> IF fd = STDOUT_FD THEN STDOUT_FILE ELSE 0]
  /\ files = << << >> >>
  /\ car_leds = 0
  /\ born = << >>
  /\ cur_dest = 0 /\ alive = TRUE
  /\ s_clean = FALSE /\ s_base = 0 /\ s_calls = {}
  /\ k_in = NoInput /\ h_fresh = FALSE /\ b_seen = {}

CallTick == CallTickUpTo(MaxTickSeq)

TickAny == Tick(TickImus, TickWheels, TickControls, TickDts)

NextTick == CallTick \/ PressHome \/ TickAny \/ Quit

SpecTick == InitTick /\ [][NextTick]_vars

(* ------------------------------------------------------------------ *)
(* One control tick over every stored throttle and steering             *)
(* ------------------------------------------------------------------ *)
\* the commands an earlier tick can have stored: 127 * u for u in [-1, 1]
HeldCommands == { << t, -t >> : t \in -127..127 }

\* the driver between two control ticks, with any stored commands
InitHold ==
  /\ output_fd_ = NO_FD /\ frame_ = 0 /\ frameskip_ = 0 /\ done_ = FALSE
  /\ gyro_bias_ = << 0, 0, 0 >> /\ gyro_last_ = << 0, 0, 0 >>
  /\ \E h \in HeldCommands :
       carstate_ = [CarStateInit EXCEPT !.throttle = h[1], !.steering = h[2]]
  /\ c_pc = "idle" /\ c_reg = 0 /\ c_buf = << >>
  /\ c_t = [tv_sec |-> 0, tv_usec |-> 0]
  /\ ncalls = 0 /\ c_dest = 0
  /\ k_pc = "idle" /\ k_fname = "-" /\ k_skip = 0 /\ k_ret = "idle"
  /\ k_result = FALSE /\ nstarts = 0 /\ nticks = 0
  /\ queue = << >> /\ heap = << >>
  /\ fdtab = [fd \in FDs |-> IF fd = STDOUT_FD THEN STDOUT_FILE ELSE 0]
  /\ files = << << >> >>
  /\ car_leds = 0
  /\ born = << >>
  /\ cur_dest = 0 /\ alive = TRUE
  /\ s_clean = FALSE /\ s_base = 0 /\ s_calls = {}
  /\ k_in = NoInput /\ h_fresh = FALSE /\ b_seen = {}

NextHold == CallOnControlFrame \/ TickAny

SpecHold == InitHold /\ [][NextHold]_vars

(* ------------------------------------------------------------------ *)
(* Camera frames and control ticks that keep arriving                   *)
(* ------------------------------------------------------------------ *)
\* StartRecording is called before the first frame
BlinkStart == ncalls = 0 /\ nticks = 0 /\ CallStartRecording

\* a camera frame arrives once the tick after the previous frame returned
BlinkFrame == k_pc = "idle" /\ nticks = ncalls /\ CamCallUpTo(MaxBlink)

\* a control tick arrives once the frame before it is through
BlinkTick == c_pc = "idle" /\ nticks < ncalls /\ CallTickUpTo(MaxBlink)

NextBlink ==
  \/ BlinkStart \/ Start96 \/ Start97 \/ StartOpen \/ StartHeader
  \/ BlinkFrame \/ CamIncr \/ CamUpdateEnd \/ CamCheckSkip \/ CamQueue
  \/ BlinkTick \/ TickBody
  \/ Drain

SpecBlink == Init /\ [][NextBlink]_vars

(* ------------------------------------------------------------------ *)
(* Reading the state                                                    *)
(* ------------------------------------------------------------------ *)
\* a written record that is a recording frame, and the camera call whose
\* timestamp it carries
IsFrame(rec) == Len(rec) >= 16 /\ Slice(rec, 0, 4) = TagCYCF
FrameCall(rec) == RdU32(rec, 8)
IsHeader(rec) == rec = ConfigSerialize

\* the positions of the queue that hold frames, and the call of each
QueuedFrames == {i \in 1..Len(queue) : queue[i].buf # NULL}
QueuedCall(i) == FrameCall(heap[queue[i].buf])

\* the calls whose frames were written to file f
WrittenCalls(f) ==
  {FrameCall(files[f][i]) : i \in {j \in 1..Len(files[f]) : IsFrame(files[f][j])}}

\* a step of the background drain, and the entry it takes
DrainStep == Len(queue') < Len(queue)
Taken == Head(queue)

\* a step of the camera thread, a step of the control thread
CameraStep == c_pc' # c_pc
ControlStep == k_pc' # k_pc

\* no descriptor is open on file f
Closed(f) == \A fd \in FDs : fdtab[fd] # f

(* ------------------------------------------------------------------ *)
(* C1                                                                   *)
(* ------------------------------------------------------------------ *)
\* frames wait in the queue in the order the camera calls produced them,
\* every chunk the writer holds is queued once, every file holds its frames
\* in that order, and nothing written is newer than something queued
FifoOrder ==
  /\ \A i, j \in QueuedFrames : i < j => QueuedCall(i) < QueuedCall(j)
  /\ \A p \in 1..Len(heap) :
       heap[p] # << >> => Cardinality({i \in QueuedFrames : queue[i].buf = p}) = 1
  /\ \A f \in 1..Len(files) : \A i, j \in 1..Len(files[f]) :
       (i < j /\ IsFrame(files[f][i]) /\ IsFrame(files[f][j]))
         => FrameCall(files[f][i]) < FrameCall(files[f][j])
  /\ \A f \in 1..Len(files) : \A c \in WrittenCalls(f) :
       \A i \in QueuedFrames : c < QueuedCall(i)

\* the drain takes the oldest entry and only that one, and a frame handed over
\* while its destination was open with no close directive pending is appended
\* whole to that destination
DrainKeepsFrames ==
  DrainStep =>
    /\ queue' = Tail(queue)
    /\ (Taken.buf # NULL /\ born[Taken.buf].file # 0) =>
         files' = [files EXCEPT ![born[Taken.buf].file] =
                     Append(@, heap[Taken.buf])]

C2_NoOldFrameInNewFile ==
  [][(DrainStep /\ Taken.buf # NULL /\ born[Taken.buf].dest # 0
        /\ Closed(born[Taken.buf].dest))
       => files' = files]_vars

(* ------------------------------------------------------------------ *)
(* C3                                                                   *)
(* ------------------------------------------------------------------ *)
\* C3: StopRecording while recording enqueues exactly one sentinel (same
\* destination, NULL buffer, length -1), then clears output_fd_ and returns
\* whatever the queue holds (IsRecording() is false on return); while not
\* recording it enqueues nothing and changes no state.
C3_StopRecording ==
  [][ /\ (k_pc = "p120" /\ ControlStep /\ output_fd_ # NO_FD) =>
           /\ queue' = Append(queue, [fd |-> output_fd_, buf |-> NULL, len |-> -1])
           /\ k_pc' = "p124"
      /\ k_pc = "p124" => ENABLED StopClear
      /\ (k_pc = "p124" /\ ControlStep) =>
           /\ output_fd_' = NO_FD
           /\ queue' = queue
           /\ k_pc' = k_ret
      /\ (k_pc = "p120" /\ ControlStep /\ output_fd_ = NO_FD) =>
           /\ k_pc' = k_ret
           /\ UNCHANGED << drv, cam, wrt, hist >> ]_vars

\* StopRecording has returned and its sentinel is still waiting to be drained
C3_Witness ==
  /\ k_pc = "idle" /\ ~IsRecording
  /\ \E i \in 1..Len(queue) : queue[i].buf = NULL /\ queue[i].len = -1

(* ------------------------------------------------------------------ *)
(* C4                                                                   *)
(* ------------------------------------------------------------------ *)
\* C4: when StartRecording cannot open the destination it returns false and
\* leaves output_fd_ at -1 (IsRecording() false, whatever it was before), no
\* header is written and nothing is handed to the background writer.
C4_OpenFailure ==
  [][(k_pc = "s98" /\ ControlStep /\ k_fname # "-" /\ ~CanOpen(k_fname)) =>
       /\ k_pc' = k_ret
       /\ k_result' = FALSE
       /\ output_fd_' = NO_FD
       /\ files' = files
       /\ queue' = queue]_vars

\* a StartRecording failed while an earlier recording was still open: the
\* call reported false and recording is off
C4_Witness ==
  /\ k_pc = "idle" /\ k_fname = "bad" /\ nstarts = 2 /\ k_result = FALSE
  /\ ~IsRecording
  /\ \E fd \in FDs \ {STDOUT_FD} : fdtab[fd] # 0

(* ------------------------------------------------------------------ *)
(* C5                                                                   *)
(* ------------------------------------------------------------------ *)
\* C5: in every destination StartRecording opened, the configuration header
\* is the first record and is there once: no frame reaches the destination
\* before the header.
C5_HeaderFirst ==
  \A f \in 2..Len(files) :
    files[f] # << >> =>
      /\ IsHeader(files[f][1])
      /\ \A i \in 2..Len(files[f]) : ~IsHeader(files[f][i])

(* ------------------------------------------------------------------ *)
(* C6                                                                   *)
(* ------------------------------------------------------------------ *)
\* C6: no step of the camera thread or of the control thread creates,
\* truncates or writes a recording destination; every change of a file is a
\* step of the background drain.
C6_OnlyDrainTouchesFiles == [][files' # files => DrainStep]_vars

(* ------------------------------------------------------------------ *)
(* C7                                                                   *)
(* ------------------------------------------------------------------ *)
\* C7: the pose is written only by steps of the camera thread; accel, gyro,
\* wheel_v, throttle and steering only by steps of the control thread.
C7_FieldOwners ==
  [][ /\ carstate_'.ceiltrack_pos # carstate_.ceiltrack_pos => CameraStep
      /\ (\/ carstate_'.accel # carstate_.accel
          \/ carstate_'.gyro # carstate_.gyro
          \/ carstate_'.wheel_v # carstate_.wheel_v
          \/ carstate_'.throttle # carstate_.throttle
          \/ carstate_'.steering # carstate_.steering) => ControlStep ]_vars

(* ------------------------------------------------------------------ *)
(* C8                                                                   *)
(* ------------------------------------------------------------------ *)
\* the raw buffer a frame record carries in its Y420 chunk
Payload(rec) == Slice(rec, PtrAfterState + 10, Len(rec) - PtrAfterState - 10)

\* a queue entry for a frame carries that call's raw buffer, whole, and is
\* addressed to the destination being recorded
CarriesItsBuffer(e) ==
  LET rec == heap[e.buf]
  IN /\ Payload(rec) \in RawBuffers(FrameCall(rec))
     /\ e.len = ChunkLen(Len(Payload(rec)))
     /\ e.len = Len(rec)
     /\ e.fd = output_fd_

\* C8: while recording stays active after StartRecording(dest, k) returned,
\* with n camera calls made since, exactly the calls number k+1, 2(k+1), ...
\* up to n have emitted a frame (floor(n/(k+1)) frames, one per call), each
\* carrying its own call's raw buffer and length.
C8_FrameSkip ==
  (s_clean /\ IsRecording /\ k_pc = "idle" /\ c_pc = "idle") =>
    LET n == ncalls - s_base
        k == frameskip_
    IN /\ s_calls = {s_base + j * (k + 1) : j \in 1..(n \div (k + 1))}
       /\ Cardinality(s_calls) = n \div (k + 1)
       /\ \A i \in QueuedFrames :
            QueuedCall(i) \in s_calls =>
              /\ CarriesItsBuffer(queue[i])
              /\ \A j \in QueuedFrames : QueuedCall(j) = QueuedCall(i) => j = i

\* three calls after StartRecording(dest, 0) have emitted three frames
C8_Witness ==
  /\ s_clean /\ IsRecording /\ k_pc = "idle" /\ c_pc = "idle"
  /\ frameskip_ = 0 /\ ncalls - s_base = 3
  /\ Cardinality(s_calls) = 3
  /\ Cardinality({i \in QueuedFrames : QueuedCall(i) \in s_calls}) = 3


(* ------------------------------------------------------------------ *)
(* C9                                                                   *)
(* ------------------------------------------------------------------ *)
\* the tag and the header-inclusive length of the chunk that starts at
\* offset at of record rec
CkTag(rec, at) == Slice(rec, at, 4)
CkLen(rec, at) == RdU32(rec, at + 4)

\* entry e of the queue is a well-formed recording frame for raw buffer buf
WellFormedFrame(e, buf) ==
  LET rec == heap[e.buf]
      L == Len(buf)
      s1 == 16
      s2 == s1 + CkLen(rec, s1)
      s3 == s2 + CkLen(rec, s2)
  IN /\ CkTag(rec, 0) = TagCYCF
     /\ CkLen(rec, 0) = e.len
     /\ e.len = Len(rec)
     /\ e.len = 16 + CkLen(rec, s1) + CkLen(rec, s2) + (L + 10)
     /\ CkTag(rec, s1) = TagCSt1 /\ CkLen(rec, s1) = SerializedSize
     /\ CkTag(rec, s2) = TagController
     /\ CkTag(rec, s3) = TagY420
     /\ CkLen(rec, s3) = L + 10
     /\ s3 + CkLen(rec, s3) = Len(rec)
     /\ RdU16(rec, s3 + 8) = 640
     /\ Slice(rec, s3 + 10, L) = buf
     /\ \A i \in 1..Len(rec) : rec[i] # UNINIT

\* C9: a frame built by QueueRecordingData for a buffer of length L starts
\* with CYCF and the total size handed to the writer, 16 + vehicle-state
\* chunk + controller chunk + (L + 10); the sub-chunks tile it with no gap or
\* overrun; the last is one Y420 chunk of length L + 10, width 640, whose
\* payload is the L input bytes.
C9_FrameLayout ==
  \A i \in QueuedFrames : WellFormedFrame(queue[i], c_buf)

\* a frame for a buffer of the greatest length waits in the queue
C9_Witness ==
  /\ Len(c_buf) = MaxLen /\ c_pc = "idle"
  /\ QueuedFrames # {}

(* ------------------------------------------------------------------ *)
(* C10                                                                  *)
(* ------------------------------------------------------------------ *)
\* the vehicle-state record of a frame
StateRecord(rec) == Slice(rec, 16, SerializedSize)

\* what CarState::Serialize leaves in a new buffer of its own size
Record(cs) == Serialize(cs, NewBuf(SerializedSize), 0, SerializedSize)

\* C10: CarState::Serialize writes exactly SerializedSize() bytes, returns
\* that number and stores it in the length field, and the record read with
\* the documented layout gives back every field of the vehicle state:
\* throttle, steering, accel, gyro, wheel_dist, wheel_v, and the pose (two
\* states that differ in the pose never serialize alike).
C10_SerializeRoundTrip ==
  \A i \in QueuedFrames :
    LET rec == StateRecord(heap[queue[i].buf])
        big == Serialize(carstate_, NewBuf(SerializedSize + 2), 1,
                         SerializedSize)
    IN /\ rec = Record(carstate_)
       /\ \A j \in 1..SerializedSize : rec[j] # UNINIT
       /\ big[1] = UNINIT /\ big[SerializedSize + 2] = UNINIT
       /\ SerializeReturn = SerializedSize
       /\ RdU32(rec, 4) = SerializedSize
       /\ \A f \in DOMAIN ParseCarState(rec, 0) :
            ParseCarState(rec, 0)[f] = carstate_[f]
       /\ \A cs \in FrameStates :
            cs.ceiltrack_pos # carstate_.ceiltrack_pos => Record(cs) # rec

(* ------------------------------------------------------------------ *)
(* C13                                                                  *)
(* ------------------------------------------------------------------ *)
HomePose == << CEILHOME_X, CEILHOME_Y, CEILHOME_THETA >>

\* C13: when the set-home operation has completed the pose is the
\* configured home pose, and it stays the home pose until the next
\* localization update starts, also with a camera frame in progress on the
\* other thread.
C13_HomeHolds == h_fresh => carstate_.ceiltrack_pos = HomePose

(* ------------------------------------------------------------------ *)
(* C17                                                                  *)
(* ------------------------------------------------------------------ *)
\* a step that hands a frame to the background writer, and the entry
FrameQueued == Len(queue') = Len(queue) + 1 /\ queue'[Len(queue')].buf # NULL
Queued == queue'[Len(queue')]

\* a close sentinel for descriptor fd waits in the queue
SentinelWaits(fd) ==
  \E i \in 1..Len(queue) : queue[i].buf = NULL /\ queue[i].fd = fd

\* C17: every frame entry handed to the background writer names a valid
\* open destination: never -1, and never a destination whose close sentinel
\* was enqueued before it.
C17_FrameHasDestination ==
  [][FrameQueued =>
       /\ Queued.fd # -1
       /\ ~SentinelWaits(Queued.fd)]_vars

(* ------------------------------------------------------------------ *)
(* C18                                                                  *)
(* ------------------------------------------------------------------ *)
\* the driver was destroyed and the writer has drained everything
AllDone == k_pc = "dead" /\ queue = << >>

\* C18: after any sequence of public StartRecording and StopRecording calls
\* ended by the destructor, every destination StartRecording opened got its
\* close sentinel (once drained, no descriptor stays open on it), and never
\* two of them.
C18_EveryDestinationClosed ==
  /\ AllDone => \A f \in 2..Len(files) : Closed(f)
  /\ \A fd \in FDs \ {STDOUT_FD} :
       Cardinality({i \in 1..Len(queue) :
                      queue[i].buf = NULL /\ queue[i].fd = fd}) <= 1

(* ------------------------------------------------------------------ *)
(* C11                                                                  *)
(* ------------------------------------------------------------------ *)
\* a control tick has returned, and the steps of a tick: the body from the
\* IMU read to the return, and the 'H' button
AfterTick == k_pc = "idle" /\ nticks > 0
TickStep == k_pc \in {"t221", "t226"} /\ k_pc' = "idle"
HomeStep == k_pc = "t221" /\ k_pc' = "t226"

\* C11: after a control tick in which the wheel interface reported motion,
\* wheel_v is the reported velocity exactly, whatever dt, wheel_v, accel and
\* gyro were.
C11_WheelPassThrough ==
  (AfterTick /\ k_in.w.ok) => carstate_.wheel_v = k_in.w.v

\* the second tick, with dt > 0 and a turning, accelerating car, stored the
\* encoder velocity
C11_Witness ==
  /\ AfterTick /\ nticks = 2 /\ k_in.w.ok /\ k_in.dt > 0
  /\ k_in.imu.accel # << 0, 0, 0 >> /\ carstate_.gyro[3] > 100
  /\ carstate_.wheel_v = 1234

(* ------------------------------------------------------------------ *)
(* C12                                                                  *)
(* ------------------------------------------------------------------ *)
\* C12: on a tick without wheel signal and with zero accelerometer input the
\* magnitude of wheel_v does not increase, for any yaw rate and any wheel_v.
C12_FallbackDecays ==
  [][(TickStep /\ ~k_in'.w.ok /\ k_in'.imu.accel = << 0, 0, 0 >>) =>
       Abs(carstate_'.wheel_v) <= Abs(carstate_.wheel_v)]_vars

\* two such ticks in a row, the last with the yaw guard passed, have shrunk a
\* nonzero estimate
C12_Witness ==
  /\ AfterTick /\ nticks = 2 /\ ~k_in.w.ok
  /\ k_in.imu.accel = << 0, 0, 0 >> /\ carstate_.gyro[3] > 100
  /\ carstate_.wheel_v \in {-1805, 1353}

(* ------------------------------------------------------------------ *)
(* C14                                                                  *)
(* ------------------------------------------------------------------ *)
\* C14: the zero-gyro-bias event stores the filtered gyro value of that
\* moment in the bias; every tick stores the raw reading minus the bias in
\* the vehicle state; the bias changes at no other step.
C14_GyroBias ==
  [][ /\ HomeStep => gyro_bias_' = gyro_last_
      /\ TickStep =>
           carstate_'.gyro = [i \in 1..3 |-> k_in'.imu.gyro[i] - gyro_bias_[i]]
      /\ gyro_bias_' # gyro_bias_ => HomeStep ]_vars

\* a tick after a bias capture stored raw minus bias, which differs from
\* filtered minus bias
C14_Witness ==
  /\ AfterTick /\ gyro_bias_[3] # 0
  /\ carstate_.gyro[3] = k_in.imu.gyro[3] - gyro_bias_[3]
  /\ carstate_.gyro[3] # gyro_last_[3] - gyro_bias_[3]

(* ------------------------------------------------------------------ *)
(* C16                                                                  *)
(* ------------------------------------------------------------------ *)
\* C16: a tick returns true while shutdown was not requested and false once
\* it was; the request is never withdrawn, so after a tick returned false no
\* tick returns true.
C16_StopIsFinal ==
  [][ /\ TickStep => k_result' = ~done_
      /\ done_ => done_'
      /\ (TickStep /\ nticks > 1 /\ ~k_result) => ~k_result' ]_vars

\* Quit came between two ticks: the second returned false
C16_Witness ==
  /\ AfterTick /\ nticks = 2 /\ done_ /\ ~k_result

(* ------------------------------------------------------------------ *)
(* C19                                                                  *)
(* ------------------------------------------------------------------ *)
\* 0.05 * |accel_longitudinal / gyro_yaw|
YawCorrection(accel, gyro) ==
  Mul005(TDiv(Abs(accel[1]) * 1000, Abs(gyro[3])))

\* C19: on a tick without wheel signal the correction is added to the
\* decayed estimate exactly when the magnitude of the corrected yaw rate
\* exceeds 0.1, positive or negative, and never at zero yaw rate.
C19_GuardOnMagnitude ==
  [][(TickStep /\ ~k_in'.w.ok) =>
       LET a == carstate_'.accel
           g == carstate_'.gyro
           decayed == Mul095(carstate_.wheel_v
                               - TDiv(98 * a[2] * k_in'.dt, 10000))
       IN carstate_'.wheel_v =
            IF Abs(g[3]) > 100 THEN decayed + YawCorrection(a, g)
            ELSE decayed]_vars

(* ------------------------------------------------------------------ *)
(* C15                                                                  *)
(* ------------------------------------------------------------------ *)
\* C15: on a tick where the controller returns 'no update', throttle and
\* steering after the tick are what they were before it, for every stored
\* value in -127..127.
C15_CommandsHeld ==
  [][(TickStep /\ ~k_in'.c.updated) =>
       /\ carstate_'.throttle = carstate_.throttle
       /\ carstate_'.steering = carstate_.steering]_vars

\* a tick without update has kept the commands -127 and 127
C15_Witness ==
  /\ AfterTick /\ ~k_in.c.updated
  /\ carstate_.throttle = -127 /\ carstate_.steering = 127

(* ------------------------------------------------------------------ *)
(* C20                                                                  *)
(* ------------------------------------------------------------------ *)
\* the recording bit of a status byte
RecordingBit(leds) == (leds \div 2) % 2 = 1

\* C20: the status byte a tick forwards has the recording bit set exactly
\* when recording is active, and its blink bit is periodic: over MaxBlink
\* camera frames, each followed by a control tick with an update, both
\* values of the blink bit are forwarded, recording or not and for every
\* frame-skip.
C20_BlinkAndRecording ==
  /\ AfterTick => (RecordingBit(car_leds) <=> IsRecording)
  /\ (k_pc = "idle" /\ c_pc = "idle" /\ nticks = MaxBlink) => b_seen = {0, 4}

====
